---- MODULE Spec2Model ----
(***************************************************************************)
(* Quiz-to-certificate server (NTBooks/solquiz).                           *)
(*                                                                         *)
(* The repository carries two listings of the server: src/server.js and    *)
(* the listing appended to src/README.md (lines 144-655), which adds       *)
(* sanitizeUserName, external templates and a render timeout.  The         *)
(* variable `variant` says which listing is running.  A JavaScript string  *)
(* is a sequence of UTF-16 code units; each code unit is a short token.    *)
(***************************************************************************)
EXTENDS Integers, Sequences, FiniteSets, TLC

VARIABLES
    variant,        \* "server.js" or "README.md": the listing that runs
    quizQuestions,  \* the answer key: quizQuestions[i] is questions[i].correct
    now,            \* Date.now(), in milliseconds since the process started
    disk,           \* disk[id] = 0: no file <id>.png; r: written by request r
    connections,    \* the request slots on which a client submits
    req,            \* req[r]: the locals and promises of one /api/submit-quiz
    sanInput,       \* argument of a direct call of sanitizeUserName
    sanOutput,      \* its result
    sanPc,          \* "ready" before the call, "returned" after it,
                    \* "resanitized" after a call on its own result
    fileInfo,       \* fileInfo[c]: one GET /api/file-info/:hash
    fileStatus,     \* fileStatus[c]: one GET /api/file-status/:hash
    tplTemplate,    \* svgContent of a direct call of applyTemplatePlaceholders
    tplFields,      \* its replacements
    tplOutput,      \* its result
    tplAgain,       \* the result of a second call, on tplOutput
    tplPc           \* "ready", "applied" (one call), "reapplied" (two calls)

queryVars == <<fileInfo, fileStatus>>
templateVars == <<tplTemplate, tplFields, tplOutput, tplAgain, tplPc>>

vars == <<variant, quizQuestions, now, disk, connections, req,
          sanInput, sanOutput, sanPc, queryVars, templateVars>>

(***************************************************************************)
(* Bounds of the model.                                                    *)
(***************************************************************************)
MaxQuestions == 2   \* the quiz has 0..MaxQuestions questions
MaxClock == 1       \* Date.now() takes the values 0..MaxClock
MaxTail == 3        \* code units that follow the padding of a raw name

Requests == {1, 2}
CertIds == 0 .. MaxClock
Variants == {"server.js", "README.md"}

Min(a, b) == IF a < b THEN a ELSE b

(***************************************************************************)
(* Characters.                                                             *)
(***************************************************************************)
Letters == {"a", "b", "f", "i"}
Digits == {"7"}
NamePunctuation == {".", ",", "'", "-"}
\* "tab" is U+0009, "nbsp" is U+00A0: both are whitespace for \s and trim()
WhiteSpace == {" ", "tab", "nbsp"}
\* "DH" "DL" is the surrogate pair of U+20000, a letter outside the BMP
HighSurrogate == "DH"
LowSurrogate == "DL"
\* "fi" is U+FB01 (LATIN SMALL LIGATURE FI)
CodeUnits == Letters \cup Digits \cup NamePunctuation \cup WhiteSpace
                \cup {"<", "&", "fi", HighSurrogate, LowSurrogate}

\* String.prototype.normalize('NFKC') on one code unit
NFKCUnit(c) ==
    CASE c = "fi" -> <<"f", "i">>
      [] c = "nbsp" -> <<" ">>
      [] OTHER -> <<c>>

\* the concatenation of the sequences ss[lo], ..., ss[hi]
RECURSIVE Concat(_, _, _)
Concat(ss, lo, hi) ==
    IF lo > hi THEN <<>>
    ELSE IF lo = hi THEN ss[lo]
    ELSE LET mid == (lo + hi) \div 2
         IN  Concat(ss, lo, mid) \o Concat(ss, mid + 1, hi)

\* String.prototype.normalize('NFKC')
normalizeNFKC(s) == Concat([i \in 1 .. Len(s) |-> NFKCUnit(s[i])], 1, Len(s))

\* the units of s at the indices i where keep[i] holds, in order
KeepAt(s, keep) ==
    LET marked == [i \in 1 .. Len(s) |-> <<s[i], keep[i]>>]
        kept == SelectSeq(marked, LAMBDA m : m[2])
    IN  [i \in 1 .. Len(kept) |-> kept[i][1]]

\* the class [\p{L}\p{N} .,'-] on a BMP code unit
AllowedUnit(c) == c \in Letters \cup Digits \cup NamePunctuation \cup {" "}

\* .replace(/[^\p{L}\p{N} .,'-]/gu, ''): the u flag matches code points, so
\* a high surrogate followed by a low one is one letter (kept), and a lone
\* surrogate is removed
stripDisallowed(s) ==
    LET keep == [i \in 1 .. Len(s) |->
            \/ AllowedUnit(s[i])
            \/ s[i] = HighSurrogate /\ i < Len(s) /\ s[i + 1] = LowSurrogate
            \/ s[i] = LowSurrogate /\ i > 1 /\ s[i - 1] = HighSurrogate]
    IN  KeepAt(s, keep)

\* .replace(/\s+/g, ' '): of each run of whitespace one unit stays, as ' '
collapseWhitespace(s) ==
    LET keep == [i \in 1 .. Len(s) |->
            ~(s[i] \in WhiteSpace /\ i < Len(s) /\ s[i + 1] \in WhiteSpace)]
        kept == KeepAt(s, keep)
    IN  [i \in 1 .. Len(kept) |-> IF kept[i] \in WhiteSpace THEN " " ELSE kept[i]]

\* String.prototype.trim()
trim(s) ==
    LET solid == {i \in 1 .. Len(s) : s[i] \notin WhiteSpace}
    IN  IF solid = {} THEN <<>>
        ELSE SubSeq(s, CHOOSE i \in solid : \A j \in solid : i <= j,
                       CHOOSE i \in solid : \A j \in solid : i >= j)

\* the cap of collapsed.slice(0, 80)
MaxNameLength == 80

\* String.prototype.slice(0, n)
slice0(s, n) == SubSeq(s, 1, Min(n, Len(s)))

\* sanitizeUserName of a string (undefined and null are handled by the caller
\* of this operator: they give '')
sanitizeUserName(input) ==
    LET normalized == normalizeNFKC(input)
        stripped == stripDisallowed(normalized)
        collapsed == trim(collapseWhitespace(stripped))
    IN  slice0(collapsed, MaxNameLength)


(***************************************************************************)
(* The quiz and the submissions.                                           *)
(***************************************************************************)
\* the answers of the three questions of the demo quiz
AnswerKey == <<8, 19, 40>>
AnswerValues == {8, 19}

RECURSIVE SeqsUpTo(_, _)
SeqsUpTo(S, n) ==
    IF n = 0 THEN {<<>>}
    ELSE LET shorter == SeqsUpTo(S, n - 1)
         IN  shorter \cup {Append(s, x) : s \in {t \in shorter : Len(t) = n - 1}, x \in S}

\* raw names a client submits: empty, only disallowed characters, clean, and
\* one that the sanitizer changes
SubmittedNames == {<<>>, <<"<">>, <<"a">>, <<" ", "a", "<">>}

\* req.body of POST /api/submit-quiz: name and answers may each be missing
Bodies ==
    {[hasName |-> hn, name |-> n, hasAnswers |-> ha, answers |-> a] :
        hn \in BOOLEAN, n \in SubmittedNames, ha \in BOOLEAN,
        a \in SeqsUpTo(AnswerValues, MaxQuestions + 1)}

RequestBodies ==
    {b \in Bodies : /\ (~b.hasName => b.name = <<>>)
                    /\ (~b.hasAnswers => b.answers = <<>>)}

EmptyBody == [hasName |-> FALSE, name |-> <<>>, hasAnswers |-> FALSE, answers |-> <<>>]

\* response.data of the upload: absent, without hash, with an empty or a
\* non-empty hash
UploadBodies ==
    {[hasData |-> FALSE, hasHash |-> FALSE, hash |-> ""],
     [hasData |-> TRUE, hasHash |-> FALSE, hash |-> ""],
     [hasData |-> TRUE, hasHash |-> TRUE, hash |-> ""],
     [hasData |-> TRUE, hasHash |-> TRUE, hash |-> "Qm1"],
     [hasData |-> TRUE, hasHash |-> TRUE, hash |-> "Qm2"]}

NoUploadBody == [hasData |-> FALSE, hasHash |-> FALSE, hash |-> ""]

\* how axios.patch ends: 200, another 2xx, a non-2xx (axios rejects), or no
\* answer at all
StampOutcomes == {"200", "204", "rejected", "transport"}

(***************************************************************************)
(* Responses: a record with `status` and the keys of the JSON body.        *)
(***************************************************************************)
NoResponse == [status |-> 0]

BadRequestResponse ==
    [status |-> 400, success |-> FALSE,
     message |-> IF variant = "README.md"
                 THEN "Valid name and all answers are required"
                 ELSE "Name and all answers are required"]

NotPerfectResponse(correctAnswers) ==
    [status |-> 200, success |-> TRUE, perfect |-> FALSE,
     score |-> correctAnswers, total |-> Len(quizQuestions),
     message |-> "Try again for a perfect score!"]

\* an upload failure reported as a success
UploadFailedResponseAsSuccess ==
    [status |-> 200, success |-> TRUE, perfect |-> TRUE,
     message |-> "Failed to upload certificate", fileHash |-> "unknown"]

\* res.status(500).json({success: false, message: 'Failed to upload certificate', ...})
UploadFailedResponse ==
    [status |-> 500, success |-> FALSE,
     message |-> "Failed to upload certificate", error |-> "uploadError.message"]

SubmissionErrorResponse ==
    [status |-> 500, success |-> FALSE,
     message |-> "Failed to process quiz submission", error |-> "error.message"]

PerfectResponse(correctAnswers, fileHash) ==
    [status |-> 200, success |-> TRUE, perfect |-> TRUE,
     score |-> correctAnswers, total |-> Len(quizQuestions),
     message |-> "Perfect score! Your certificate has been generated and uploaded.",
     fileHash |-> fileHash]

(***************************************************************************)
(* Validation and grading.                                                 *)
(***************************************************************************)
\* the name the handler validates and hands to generateCertificate:
\* safeName = sanitizeUserName(name) in README.md, name itself in server.js
HandlerName(body) ==
    IF variant = "README.md"
    THEN (IF body.hasName THEN sanitizeUserName(body.name) ELSE <<>>)
    ELSE body.name

\* a validation in which an empty answers array counts as missing
RejectedEmptyAnswers(body) ==
    \/ ~body.hasName
    \/ HandlerName(body) = <<>>
    \/ ~body.hasAnswers
    \/ body.answers = <<>>
    \/ Len(body.answers) # Len(quizQuestions)

\* !name || !answers || answers.length !== quizQuestions.length
Rejected(body) ==
    \/ ~body.hasName
    \/ HandlerName(body) = <<>>
    \/ ~body.hasAnswers
    \/ Len(body.answers) # Len(quizQuestions)

RECURSIVE CountCorrectFrom(_, _)
CountCorrectFrom(answers, i) ==
    IF i > Len(quizQuestions) THEN 0
    ELSE (IF answers[i] = quizQuestions[i] THEN 1 ELSE 0)
            + CountCorrectFrom(answers, i + 1)

\* a grading loop that stops one question short
GradeSkippingLast(answers) ==
    IF Len(quizQuestions) = 0 THEN 0
    ELSE CountCorrectFrom(SubSeq(answers, 1, Len(answers) - 1) \o <<0>>, 1)

\* the loop over quizQuestions that counts correctAnswers
Grade(answers) == CountCorrectFrom(answers, 1)

\* fileHash = response.data?.hash, without the || 'unknown'
FileHashWithoutSentinel(data) ==
    IF data.hasData /\ data.hasHash THEN data.hash ELSE ""

\* fileHash = response.data?.hash || 'unknown'
FileHashOf(data) ==
    IF data.hasData /\ data.hasHash /\ data.hash # "" THEN data.hash ELSE "unknown"


(***************************************************************************)
(* POST /api/submit-quiz.  req[r].pc is the await the handler is parked at: *)
(* "loadTemplate" (loadCertificateTemplate, README.md only), "render" (the  *)
(* rasterizer, raced against a timer in README.md), "writeFile", "upload"   *)
(* (axios.post), "unlink" (after a successful upload),                      *)
(* "unlinkAfterFailure", "stamp" (axios.patch); "idle" before the request   *)
(* arrives, "done" once it has been answered.                               *)
(***************************************************************************)
NoCertificate == [name |-> <<>>, title |-> "", certificateId |-> -1]

IdleRequest ==
    [pc |-> "idle", body |-> EmptyBody, correctAnswers |-> 0,
     certificateId |-> -1, loads |-> <<>>, template |-> -1,
     render |-> "none", timer |-> "none",
     certificate |-> NoCertificate, wrote |-> FALSE,
     upload |-> "none", uploadData |-> NoUploadBody, uploadError |-> "none",
     uploads |-> 0,
     fileHash |-> "", stamp |-> "none", stamps |-> 0,
     sent |-> 0, response |-> NoResponse]

\* res.json(...) / res.status(...).json(...) followed by the handler's end
Respond(q, response) ==
    [q EXCEPT !.pc = "done", !.response = response, !.sent = @ + 1]

\* lines 126-158 up to the first await: validation, grading, and the
\* synchronous start of generateCertificate, which reads Date.now().  The
\* first await of generateCertificate is loadCertificateTemplate in README.md
\* and the rasterizer (on the inline markup, with no timer) in server.js
Submit(r) ==
    /\ r \in connections
    /\ req[r].pc = "idle"
    /\ \E body \in RequestBodies :
        LET q == [req[r] EXCEPT !.body = body]
            correctAnswers == Grade(body.answers)
        IN  req' = [req EXCEPT ![r] =
                IF Rejected(body) THEN Respond(q, BadRequestResponse)
                ELSE IF correctAnswers # Len(quizQuestions)
                THEN Respond([q EXCEPT !.correctAnswers = correctAnswers],
                             NotPerfectResponse(correctAnswers))
                ELSE IF variant = "README.md"
                THEN [q EXCEPT !.correctAnswers = correctAnswers,
                               !.certificateId = now,
                               !.pc = "loadTemplate"]
                ELSE [q EXCEPT !.correctAnswers = correctAnswers,
                               !.certificateId = now,
                               !.template = 0,
                               !.render = "running",
                               !.pc = "render"]]
    /\ UNCHANGED <<variant, quizQuestions, now, disk, connections,
                   sanInput, sanOutput, sanPc, queryVars, templateVars>>

\* what fs.readFile gives for a template candidate: it rejects, or it
\* resolves with the file's text, which may be empty
FileContents == {"missing", "empty", "svg"}

\* the three candidates in order: the preferred name, CERT_TEMPLATE, 'default.svg'
Candidates == 1 .. 3

\* loadCertificateTemplate, files[i] being what readFile gives for candidate
\* i: the first candidate that is read is returned, later ones are not tried;
\* null when every read rejects
loadCertificateTemplate(files) ==
    LET loadable == {i \in Candidates : files[i] # "missing"}
    IN  IF loadable = {}
        THEN [index |-> 0, svg |-> "null", attempts |-> files]
        ELSE LET first == CHOOSE i \in loadable : \A j \in loadable : i <= j
             IN  [index |-> first, svg |-> files[first],
                  attempts |-> SubSeq(files, 1, first)]

\* if (loadedTemplate): null and the empty string are falsy
Truthy(svg) == svg \notin {"null", "empty"}

\* await loadCertificateTemplate(templateName); then the markup is built from
\* the loaded template or, without one, from the inline markup, and the
\* rasterizer is started inside withTimeout(..., 15000).  loads and template
\* are locals of generateCertificate: the candidates read, and the source of
\* the markup (candidate i, or 0 for the inline markup)
LoadTemplate(r) ==
    /\ req[r].pc = "loadTemplate"
    /\ \E files \in [Candidates -> FileContents] :
        LET loaded == loadCertificateTemplate(files)
        IN  req' = [req EXCEPT ![r] =
                [@ EXCEPT !.loads = loaded.attempts,
                          !.template = IF Truthy(loaded.svg) THEN loaded.index ELSE 0,
                          !.render = "running",
                          !.timer = "armed",
                          !.pc = "render"]]
    /\ UNCHANGED <<variant, quizQuestions, now, disk, connections,
                   sanInput, sanOutput, sanPc, queryVars, templateVars>>

\* generateCertificate returns or throws: its locals are gone
LeaveGenerate(q) == [q EXCEPT !.loads = <<>>, !.template = -1]

\* clearTimeout(timeoutId), on both exits of withTimeout
ClearTimer(timer) == IF timer = "armed" THEN "cleared" ELSE timer

\* generateCertificate(name, title): the markup carries name, title and
\* certificateId; the rasterizer returns the buffer or rejects, and a
\* rejection reaches the handler's outer catch
GenerateCertificate(r) ==
    /\ req[r].pc = "render"
    /\ req[r].render = "running"
    /\ \E rendered \in BOOLEAN :
        req' = [req EXCEPT ![r] =
            IF rendered
            THEN [LeaveGenerate(@) EXCEPT !.certificate =
                               [name |-> HandlerName(req[r].body), title |-> "Quiz",
                                certificateId |-> req[r].certificateId],
                           !.render = "done",
                           !.timer = ClearTimer(@),
                           !.pc = "writeFile"]
            ELSE Respond([LeaveGenerate(@) EXCEPT !.render = "failed",
                                                  !.timer = ClearTimer(@)],
                         SubmissionErrorResponse)]
    /\ UNCHANGED <<variant, quizQuestions, now, disk, connections,
                   sanInput, sanOutput, sanPc, queryVars, templateVars>>

\* the rasterizer hangs: its promise will never settle
RenderHangs(r) ==
    /\ req[r].pc = "render"
    /\ req[r].render = "running"
    /\ req' = [req EXCEPT ![r].render = "hung"]
    /\ UNCHANGED <<variant, quizQuestions, now, disk, connections,
                   sanInput, sanOutput, sanPc, queryVars, templateVars>>

\* withTimeout: the timer fires before the rasterizer settles, Promise.race
\* rejects, generateCertificate rethrows and the outer catch answers 500
RenderTimeout(r) ==
    /\ req[r].pc = "render"
    /\ req[r].timer = "armed"
    /\ req' = [req EXCEPT ![r] =
                Respond([LeaveGenerate(@) EXCEPT !.timer = "fired"],
                        SubmissionErrorResponse)]
    /\ UNCHANGED <<variant, quizQuestions, now, disk, connections,
                   sanInput, sanOutput, sanPc, queryVars, templateVars>>

\* await fs.writeFile(certPath, certBuffer), then the form is built and
\* axios.post is started.  writeFile may reject, and building the form
\* (require('form-data'), new FormData(), append) may throw: both reach the
\* outer catch, which does not unlink
WriteFile(r) ==
    /\ req[r].pc = "writeFile"
    /\ \E written \in BOOLEAN, formBuilt \in BOOLEAN :
        /\ (~written => formBuilt)
        /\ disk' = IF written
                   THEN [disk EXCEPT ![req[r].certificateId] = r]
                   ELSE disk
        /\ req' = [req EXCEPT ![r] =
            IF ~written THEN Respond(@, SubmissionErrorResponse)
            ELSE IF ~formBuilt
            THEN Respond([@ EXCEPT !.wrote = TRUE], SubmissionErrorResponse)
            ELSE [@ EXCEPT !.wrote = TRUE, !.fileHash = "unknown",
                           !.upload = "pending", !.uploads = @ + 1,
                           !.pc = "upload"]]
    /\ UNCHANGED <<variant, quizQuestions, now, connections,
                   sanInput, sanOutput, sanPc, queryVars, templateVars>>

\* how axios.post rejects: a non-2xx response, or no response at all
UploadFailures == {"non-2xx", "transport"}

\* the upload is issued again after a failure
UploadRejectedRetry(q, failure) ==
    [q EXCEPT !.upload = "pending", !.uploadError = failure,
              !.uploads = Min(@ + 1, 3)]

\* axios.post rejected: control enters catch (uploadError)
UploadRejected(q, failure) ==
    [q EXCEPT !.upload = "failed", !.uploadError = failure,
              !.pc = "unlinkAfterFailure"]

\* axios.post resolved (2xx): fileHash is taken from the body
UploadResolved(q, data) ==
    [q EXCEPT !.upload = "ok", !.uploadData = data,
              !.fileHash = FileHashOf(data), !.pc = "unlink"]

UploadCompletes(r) ==
    /\ req[r].pc = "upload"
    /\ \/ \E data \in UploadBodies :
            req' = [req EXCEPT ![r] = UploadResolved(@, data)]
       \/ \E failure \in UploadFailures :
            req' = [req EXCEPT ![r] = UploadRejected(@, failure)]
    /\ UNCHANGED <<variant, quizQuestions, now, disk, connections,
                   sanInput, sanOutput, sanPc, queryVars, templateVars>>

\* an unlink that clears the whole upload directory
UnlinkResultsAllFiles(id) ==
    IF disk[id] = 0 THEN {disk}
    ELSE {disk, [other \in CertIds |-> 0]}

\* try { await fs.unlink(certPath) } catch (e) { console.warn(...) }: the
\* file is removed, or unlink rejects (always when there is no such file) and
\* the rejection is swallowed
UnlinkResults(id) ==
    IF disk[id] = 0 THEN {disk}
    ELSE {disk, [disk EXCEPT ![id] = 0]}

\* the stamp is issued although the upload failed
StampAfterFailedUpload(q) ==
    [q EXCEPT !.stamp = "pending", !.stamps = @ + 1, !.pc = "stamp"]

\* a catch (uploadError) that answers without returning, so that the handler
\* goes on to the stamp
AnswerFailedUploadNoReturn(q) ==
    [Respond(q, UploadFailedResponse) EXCEPT
        !.stamp = "pending", !.stamps = @ + 1, !.pc = "stamp"]

\* the end of catch (uploadError): return res.status(500).json(...)
AnswerFailedUpload(q) == Respond(q, UploadFailedResponse)

\* the stamp request is started: axios.patch(...)
IssueStamp(q) ==
    [q EXCEPT !.stamp = "pending", !.stamps = @ + 1, !.pc = "stamp"]

UnlinkAfterUpload(r) ==
    /\ req[r].pc = "unlink"
    /\ disk' \in UnlinkResults(req[r].certificateId)
    /\ req' = [req EXCEPT ![r] = IssueStamp(@)]
    /\ UNCHANGED <<variant, quizQuestions, now, connections,
                   sanInput, sanOutput, sanPc, queryVars, templateVars>>

UnlinkAfterFailedUpload(r) ==
    /\ req[r].pc = "unlinkAfterFailure"
    /\ disk' \in UnlinkResults(req[r].certificateId)
    /\ req' = [req EXCEPT ![r] = AnswerFailedUpload(@)]
    /\ UNCHANGED <<variant, quizQuestions, now, connections,
                   sanInput, sanOutput, sanPc, queryVars, templateVars>>

\* a stamp failure turned into an error response
StampSettledStrict(q, outcome) ==
    IF outcome = "200"
    THEN Respond([q EXCEPT !.stamp = outcome],
                 PerfectResponse(q.correctAnswers, q.fileHash))
    ELSE Respond([q EXCEPT !.stamp = outcome], SubmissionErrorResponse)

\* the stamp try/catch logs every outcome; then res.json({success: true, ...})
StampSettled(q, outcome) ==
    Respond([q EXCEPT !.stamp = outcome],
            PerfectResponse(q.correctAnswers, q.fileHash))

StampCompletes(r) ==
    /\ req[r].pc = "stamp"
    /\ \E outcome \in StampOutcomes :
        req' = [req EXCEPT ![r] = StampSettled(@, outcome)]
    /\ UNCHANGED <<variant, quizQuestions, now, disk, connections,
                   sanInput, sanOutput, sanPc, queryVars, templateVars>>

\* no body of an upstream answer
NoData == [shape |-> "none", files |-> <<>>]

\* no upstream call made
NoUpstream == [kind |-> "none", status |-> 0, data |-> NoData]

\* a query handler that has not been entered
IdleQuery ==
    [pc |-> "idle", hash |-> "", upstream |-> NoUpstream,
     sent |-> 0, response |-> NoResponse]

QueryClients == {1}

\* no client is connected that would make a query
NoQueries ==
    /\ fileInfo = [c \in QueryClients |-> [IdleQuery EXCEPT !.pc = "closed"]]
    /\ fileStatus = [c \in QueryClients |-> [IdleQuery EXCEPT !.pc = "closed"]]

\* a client is connected and has not sent its queries yet
QueriesIdle ==
    /\ fileInfo = [c \in QueryClients |-> IdleQuery]
    /\ fileStatus = [c \in QueryClients |-> IdleQuery]

\* applyTemplatePlaceholders is not called directly
NoTemplateCall ==
    /\ tplTemplate = <<>>
    /\ tplFields = <<>>
    /\ tplOutput = <<>>
    /\ tplAgain = <<>>
    /\ tplPc = "unused"

\* a millisecond passes
Tick ==
    /\ now < MaxClock
    /\ now' = now + 1
    /\ UNCHANGED <<variant, quizQuestions, disk, connections, req,
                   sanInput, sanOutput, sanPc, queryVars, templateVars>>

\* the quiz file gives 0..MaxQuestions questions (none when it fails to load)
LoadedQuizzes == {SubSeq(AnswerKey, 1, n) : n \in 0 .. Min(MaxQuestions, Len(AnswerKey))}

Init ==
    /\ variant \in Variants
    /\ quizQuestions \in LoadedQuizzes
    /\ now = 0
    /\ disk = [id \in CertIds |-> 0]
    /\ connections = {1}
    /\ req = [r \in Requests |-> IdleRequest]
    /\ sanInput = <<>>
    /\ sanOutput = <<>>
    /\ sanPc = "ready"
    /\ NoQueries
    /\ NoTemplateCall

Next ==
    \/ \E r \in Requests : Submit(r)
    \/ \E r \in Requests : LoadTemplate(r)
    \/ \E r \in Requests : GenerateCertificate(r)
    \/ \E r \in Requests : RenderHangs(r)
    \/ \E r \in Requests : RenderTimeout(r)
    \/ \E r \in Requests : WriteFile(r)
    \/ \E r \in Requests : UploadCompletes(r)
    \/ \E r \in Requests : UnlinkAfterUpload(r)
    \/ \E r \in Requests : UnlinkAfterFailedUpload(r)
    \/ \E r \in Requests : StampCompletes(r)
    \/ Tick

Spec == Init /\ [][Next]_vars

\* two submissions in flight at once, interleaved at their awaits, on a quiz
\* of one question
InitConcurrent ==
    /\ variant \in Variants
    /\ quizQuestions = SubSeq(AnswerKey, 1, 1)
    /\ now = 0
    /\ disk = [id \in CertIds |-> 0]
    /\ connections = Requests
    /\ req = [r \in Requests |-> IdleRequest]
    /\ sanInput = <<>>
    /\ sanOutput = <<>>
    /\ sanPc = "ready"
    /\ NoQueries
    /\ NoTemplateCall

SpecConcurrent == InitConcurrent /\ [][Next]_vars

(***************************************************************************)
(* Direct calls of sanitizeUserName.                                       *)
(***************************************************************************)
\* k letters
Padding(k) == [i \in 1 .. k |-> "a"]

PaddingLengths == {0} \cup ((MaxNameLength - 3) .. MaxNameLength)

TailUnits == {"a", "7", " ", ".", "<", "tab", "nbsp", "fi", HighSurrogate, LowSurrogate}

RawNames ==
    {Padding(k) \o tail : k \in PaddingLengths, tail \in SeqsUpTo(TailUnits, MaxTail)}

InitSanitize ==
    /\ variant = "README.md"
    /\ quizQuestions = <<>>
    /\ now = 0
    /\ disk = [id \in CertIds |-> 0]
    /\ connections = {}
    /\ req = [r \in Requests |-> IdleRequest]
    /\ sanInput \in RawNames
    /\ sanOutput = <<>>
    /\ sanPc = "ready"
    /\ NoQueries
    /\ NoTemplateCall

CallSanitize ==
    /\ sanPc = "ready"
    /\ sanOutput' = sanitizeUserName(sanInput)
    /\ sanPc' = "returned"
    /\ UNCHANGED <<variant, quizQuestions, now, disk, connections, req, sanInput,
                   queryVars, templateVars>>

\* the name that came out of the sanitizer is passed to it again
CallSanitizeAgain ==
    /\ sanPc = "returned"
    /\ sanInput' = sanOutput
    /\ sanOutput' = sanitizeUserName(sanOutput)
    /\ sanPc' = "resanitized"
    /\ UNCHANGED <<variant, quizQuestions, now, disk, connections, req,
                   queryVars, templateVars>>

NextSanitize == CallSanitize \/ CallSanitizeAgain

SpecSanitize == InitSanitize /\ [][NextSanitize]_vars


(***************************************************************************)
(* GET /api/file-info/:hash and GET /api/file-status/:hash.  Both make one  *)
(* axios.get; pc is "idle", "get" (parked at the await) or "done".          *)
(***************************************************************************)
MaxFiles == 2

\* the route parameter: the router matches only a non-empty segment
Hashes == {"Qm1", "Qm2"}

\* entries of the collection listing; two of them carry the same hash
FileEntries ==
    {[hash |-> "Qm1", gatewayurl |-> "g1"],
     [hash |-> "Qm1", gatewayurl |-> "g2"],
     [hash |-> "Qm3", gatewayurl |-> "g3"]}

\* response.data: JSON null, a body with no files field (an empty body or an
\* object without it), or an object with a files array
UpstreamData ==
    {[shape |-> "null", files |-> <<>>], [shape |-> "nofiles", files |-> <<>>]}
        \cup {[shape |-> "listing", files |-> fs] : fs \in SeqsUpTo(FileEntries, MaxFiles)}

\* statuses for which axios.get resolves (validateStatus: 200 <= status < 300)
ResolvedStatuses == {200, 203}

\* what the await of axios.get gives: a rejection (a status outside 2xx, or
\* no answer at all), or a response
Upstreams ==
    {[kind |-> "rejected", status |-> 0, data |-> NoData]}
        \cup [kind : {"resolved"}, status : ResolvedStatuses, data : UpstreamData]

HashRequiredResponse ==
    [status |-> 400, success |-> FALSE, message |-> "File hash is required"]

QueryFailure(status, message) ==
    [status |-> status, success |-> FALSE, message |-> message]

QuerySuccess(data) == [status |-> 200, success |-> TRUE, data |-> data]

\* data.files.find(file => file.hash === hash): the first match, if any
Find(files, hash) == {i \in 1 .. Len(files) : files[i].hash = hash}

First(indices) == CHOOSE i \in indices : \A j \in indices : i <= j

\* file-info after the await: lines 275-316.  Reading data.files of null
\* throws into the catch
FileInfoAnswer(hash, upstream) ==
    IF upstream.kind = "rejected"
    THEN QueryFailure(500, "Failed to get file info")
    ELSE IF upstream.status # 200
    THEN QueryFailure(upstream.status, "Failed to get collection files")
    ELSE IF upstream.data.shape = "null"
    THEN QueryFailure(500, "Failed to get file info")
    ELSE IF upstream.data.shape = "nofiles"
    THEN QueryFailure(500, "Invalid response format")
    ELSE LET found == Find(upstream.data.files, hash)
         IN  IF found = {}
             THEN QueryFailure(404, "File not found in collection")
             ELSE QuerySuccess(upstream.data.files[First(found)])

\* file-status after the await: lines 342-364
FileStatusAnswer(upstream) ==
    IF upstream.kind = "rejected"
    THEN QueryFailure(500, "Failed to get file status")
    ELSE IF upstream.status # 200
    THEN QueryFailure(upstream.status, "Failed to get file status")
    ELSE QuerySuccess(upstream.data)

\* the handler up to the await: the hash check and the start of axios.get
EnterQuery(q, hash) ==
    IF hash = ""
    THEN [q EXCEPT !.hash = hash, !.pc = "done", !.sent = @ + 1,
                   !.response = HashRequiredResponse]
    ELSE [q EXCEPT !.hash = hash, !.pc = "get"]

\* the handler from the await to its response
LeaveQuery(q, upstream, response) ==
    [q EXCEPT !.upstream = upstream, !.pc = "done", !.sent = @ + 1,
              !.response = response]

FileInfoRequest(c) ==
    /\ fileInfo[c].pc = "idle"
    /\ \E hash \in Hashes : fileInfo' = [fileInfo EXCEPT ![c] = EnterQuery(@, hash)]
    /\ UNCHANGED <<variant, quizQuestions, now, disk, connections, req,
                   sanInput, sanOutput, sanPc, fileStatus, templateVars>>

FileInfoCompletes(c) ==
    /\ fileInfo[c].pc = "get"
    /\ \E upstream \in Upstreams :
        fileInfo' = [fileInfo EXCEPT ![c] =
                    LeaveQuery(@, upstream, FileInfoAnswer(fileInfo[c].hash, upstream))]
    /\ UNCHANGED <<variant, quizQuestions, now, disk, connections, req,
                   sanInput, sanOutput, sanPc, fileStatus, templateVars>>

FileStatusRequest(c) ==
    /\ fileStatus[c].pc = "idle"
    /\ \E hash \in Hashes : fileStatus' = [fileStatus EXCEPT ![c] = EnterQuery(@, hash)]
    /\ UNCHANGED <<variant, quizQuestions, now, disk, connections, req,
                   sanInput, sanOutput, sanPc, fileInfo, templateVars>>

FileStatusCompletes(c) ==
    /\ fileStatus[c].pc = "get"
    /\ \E upstream \in Upstreams :
        fileStatus' = [fileStatus EXCEPT ![c] =
                    LeaveQuery(@, upstream, FileStatusAnswer(upstream))]
    /\ UNCHANGED <<variant, quizQuestions, now, disk, connections, req,
                   sanInput, sanOutput, sanPc, fileInfo, templateVars>>

InitQuery ==
    /\ variant \in Variants
    /\ quizQuestions = <<>>
    /\ now = 0
    /\ disk = [id \in CertIds |-> 0]
    /\ connections = {}
    /\ req = [r \in Requests |-> IdleRequest]
    /\ sanInput = <<>>
    /\ sanOutput = <<>>
    /\ sanPc = "ready"
    /\ QueriesIdle
    /\ NoTemplateCall

NextQuery ==
    \/ \E c \in QueryClients : FileInfoRequest(c)
    \/ \E c \in QueryClients : FileInfoCompletes(c)
    \/ \E c \in QueryClients : FileStatusRequest(c)
    \/ \E c \in QueryClients : FileStatusCompletes(c)

SpecQuery == InitQuery /\ [][NextQuery]_vars

\* the three handlers: the client submits a quiz, or it makes the two queries
InitServer == Init \/ InitQuery

NextServer == Next \/ NextQuery

SpecServer == InitServer /\ [][NextServer]_vars

(***************************************************************************)
(* Direct calls of applyTemplatePlaceholders.  Text is a sequence of       *)
(* tokens: single characters, and the words "tspan", the key names and the *)
(* entity names ("amp;" is the text after the & of &amp;).                 *)
(***************************************************************************)
MaxSegments == 3

\* the keys of replacements, in the order of the object literal
Keys ==
    <<"CERT_TITLE", "COURSE_TITLE", "INTRO_TEXT", "NAME", "COMPLETION_TEXT",
      "SECONDARY_TEXT", "DATE", "CERT_ID", "FOOTER">>

\* ##KEY##
Placeholder(key) == <<"#", "#", key, "#", "#">>

\* the length of ##KEY## in tokens
PlaceholderLength == Len(Placeholder("NAME"))

\* /<\/?tspan[^>]*>/ at position i: the position of the closing >, or 0
TagEnd(s, i) ==
    IF s[i] # "<" THEN 0
    ELSE LET j == IF i + 1 <= Len(s) /\ s[i + 1] = "/" THEN i + 2 ELSE i + 1
             closers == {k \in j + 1 .. Len(s) : s[k] = ">"}
         IN  IF j > Len(s) \/ s[j] # "tspan" \/ closers = {} THEN 0
             ELSE CHOOSE k \in closers : \A l \in closers : k <= l

\* the positions inside a match of the tspan pattern.  A tag that starts
\* inside another match ends at the same > as that match, so the positions
\* the scan removes are those covered by any tag
InTspanTag(s) ==
    {k \in 1 .. Len(s) : \E i \in 1 .. k : TagEnd(s, i) >= k}

\* svgContent.replace(/<\/?tspan[^>]*>/gi, '')
RemoveTspan(s) == KeepAt(s, [k \in 1 .. Len(s) |-> k \notin InTspanTag(s)])

\* escapeXml for one character ("dquote" is the double quote)
EscapeUnit(u) ==
    CASE u = "&" -> <<"&", "amp;">>
      [] u = "<" -> <<"&", "lt;">>
      [] u = ">" -> <<"&", "gt;">>
      [] u = "dquote" -> <<"&", "quot;">>
      [] u = "'" -> <<"&", "apos;">>
      [] OTHER -> <<u>>

escapeXml(value) ==
    Concat([i \in 1 .. Len(value) |-> EscapeUnit(value[i])], 1, Len(value))

\* the replacement string of String.prototype.replace, expanded for the match
\* of length PlaceholderLength at position at of s: $$ is $, $& the match,
\* $ and a backtick the text before it, $ and an apostrophe the text after
\* it; any other $ is literal (the pattern has no groups)
RECURSIVE ExpandFrom(_, _, _, _)
ExpandFrom(replacement, j, s, at) ==
    IF j > Len(replacement) THEN <<>>
    ELSE IF replacement[j] = "$" /\ j < Len(replacement)
                /\ replacement[j + 1] \in {"$", "&", "backtick", "'"}
    THEN (CASE replacement[j + 1] = "$" -> <<"$">>
            [] replacement[j + 1] = "&" -> SubSeq(s, at, at + PlaceholderLength - 1)
            [] replacement[j + 1] = "backtick" -> SubSeq(s, 1, at - 1)
            [] replacement[j + 1] = "'" -> SubSeq(s, at + PlaceholderLength, Len(s)))
            \o ExpandFrom(replacement, j + 2, s, at)
    ELSE <<replacement[j]>> \o ExpandFrom(replacement, j + 1, s, at)

Expand(replacement, s, at) == ExpandFrom(replacement, 1, s, at)

\* the pattern ##KEY## matches s at position i
MatchesAt(s, i, key) ==
    /\ i + PlaceholderLength - 1 <= Len(s)
    /\ SubSeq(s, i, i + PlaceholderLength - 1) = Placeholder(key)

\* the positions where ##KEY## occurs in s
Occurrences(s, key) == {i \in 1 .. Len(s) : MatchesAt(s, i, key)}

\* every occurrence after j up to i overlaps an earlier occurrence from j on
Chained(occurrences, j, i) ==
    \A c \in occurrences :
        (j < c /\ c <= i) =>
            \E d \in occurrences : j <= d /\ d < c /\ c - d < PlaceholderLength

\* the matches of a global replace: the scan goes left to right and resumes
\* after each match, so of a chain of overlapping occurrences it takes the
\* first, the third, ...
Matches(s, key) ==
    LET occurrences == Occurrences(s, key)
    IN  {i \in occurrences :
            LET starts == {j \in occurrences : j <= i /\ Chained(occurrences, j, i)}
                start == CHOOSE j \in starts : \A k \in starts : j <= k
            IN  Cardinality({c \in occurrences : start <= c /\ c < i}) % 2 = 0}

\* result.replace(new RegExp('##KEY##', 'g'), replacement)
ReplaceAll(s, key, replacement) ==
    LET matches == Matches(s, key)
        piece(i) ==
            IF i \in matches THEN Expand(replacement, s, i)
            ELSE IF \E m \in matches : m < i /\ i < m + PlaceholderLength THEN <<>>
            ELSE <<s[i]>>
    IN  Concat([i \in 1 .. Len(s) |-> piece(i)], 1, Len(s))

\* the loop over Object.entries(replacements), from entry k on
RECURSIVE ReplaceEntriesFrom(_, _, _)
ReplaceEntriesFrom(result, replacements, k) ==
    IF k > Len(replacements) THEN result
    ELSE ReplaceEntriesFrom(
            ReplaceAll(result, replacements[k].key,
                       escapeXml(replacements[k].value)),
            replacements, k + 1)

\* a substitution that escapes the template text as well
applyEscapingTemplate(svgContent, replacements) ==
    ReplaceEntriesFrom(escapeXml(RemoveTspan(svgContent)), replacements, 1)

applyTemplatePlaceholders(svgContent, replacements) ==
    ReplaceEntriesFrom(RemoveTspan(svgContent), replacements, 1)

\* fixed text of the certificate
Text == <<"x">>

\* the object literal of generateCertificate, for a title and a name
Replacements(title, name) ==
    <<[key |-> "CERT_TITLE", value |-> Text],
      [key |-> "COURSE_TITLE", value |-> title],
      [key |-> "INTRO_TEXT", value |-> Text],
      [key |-> "NAME", value |-> name],
      [key |-> "COMPLETION_TEXT", value |-> Text \o title],
      [key |-> "SECONDARY_TEXT", value |-> Text],
      [key |-> "DATE", value |-> Text],
      [key |-> "CERT_ID", value |-> Text],
      [key |-> "FOOTER", value |-> Text]>>

\* pieces of template text
Segments ==
    {Placeholder("NAME"), Placeholder("COURSE_TITLE"),
     <<"<", "tspan", ">">>, <<"<", "/", "tspan", ">">>, <<"tspan", ">">>,
     <<"#">>, <<"<">>, <<"x">>}

Templates ==
    {Concat(pieces, 1, Len(pieces)) : pieces \in SeqsUpTo(Segments, MaxSegments)}

\* quiz titles: plain, with markup characters, with $ patterns, and with the
\* placeholder of an earlier and of a later key
Titles ==
    {<<"x">>, <<"<">>, <<"&">>, <<"$", "backtick">>, <<"$", "&">>, <<"$", "$">>,
     Placeholder("NAME"), Placeholder("CERT_TITLE")}

Names == {<<"'">>, <<"$", "backtick">>}

InitTemplate ==
    /\ variant = "README.md"
    /\ quizQuestions = <<>>
    /\ now = 0
    /\ disk = [id \in CertIds |-> 0]
    /\ connections = {}
    /\ req = [r \in Requests |-> IdleRequest]
    /\ sanInput = <<>>
    /\ sanOutput = <<>>
    /\ sanPc = "ready"
    /\ NoQueries
    /\ tplTemplate \in Templates
    /\ tplFields \in [title : Titles, name : Names]
    /\ tplOutput = <<>>
    /\ tplAgain = <<>>
    /\ tplPc = "ready"

\* applyTemplatePlaceholders(tplTemplate, replacements)
CallApply ==
    /\ tplPc = "ready"
    /\ tplOutput' = applyTemplatePlaceholders(tplTemplate,
                        Replacements(tplFields.title, tplFields.name))
    /\ tplPc' = "applied"
    /\ UNCHANGED <<variant, quizQuestions, now, disk, connections, req,
                   sanInput, sanOutput, sanPc, queryVars,
                   tplTemplate, tplFields, tplAgain>>

\* a second call, on the output of the first
CallApplyAgain ==
    /\ tplPc = "applied"
    /\ tplAgain' = applyTemplatePlaceholders(tplOutput,
                        Replacements(tplFields.title, tplFields.name))
    /\ tplPc' = "reapplied"
    /\ UNCHANGED <<variant, quizQuestions, now, disk, connections, req,
                   sanInput, sanOutput, sanPc, queryVars,
                   tplTemplate, tplFields, tplOutput>>

NextTemplate == CallApply \/ CallApplyAgain

SpecTemplate == InitTemplate /\ [][NextTemplate]_vars

(***************************************************************************)
(* Properties of the two query handlers (checked under SpecQuery).         *)
(***************************************************************************)
\* the listing was obtained and has a file list
HasListing(q) ==
    q.upstream.kind = "resolved" /\ q.upstream.data.shape = "listing"

\* C11: file-info answers success with the matching entry when the obtained
\* listing has one, 404 when the listing has a file list without a match, and
\* 500 when the listing call fails or the answer has no file list; it sends
\* one response in every case
C11_FileInfoOutcomes ==
    \A c \in QueryClients :
        LET q == fileInfo[c]
            matching == Find(q.upstream.data.files, q.hash)
        IN  q.pc = "done" =>
                /\ q.sent = 1
                /\ (HasListing(q) /\ matching # {}) =>
                        /\ q.response.success
                        /\ \E i \in matching : q.response.data = q.upstream.data.files[i]
                /\ (HasListing(q) /\ matching = {}) => q.response.status = 404
                /\ ~HasListing(q) => q.response.status = 500

\* C12: file-status has two outcomes, success with the upstream payload
\* unchanged or HTTP 500; 500 exactly when the upstream call is rejected
\* (non-2xx or transport failure), success for every 2xx answer
C12_FileStatusOutcomes ==
    \A c \in QueryClients :
        LET q == fileStatus[c]
        IN  q.pc = "done" =>
                IF q.upstream.kind = "rejected"
                THEN q.response.status = 500 /\ ~q.response.success
                ELSE /\ q.response.success
                     /\ q.response.data = q.upstream.data

(***************************************************************************)
(* Properties of POST /api/submit-quiz (checked under Spec).               *)
(***************************************************************************)
Answered(r) == req[r].pc = "done"

\* the submission meets the acceptance precondition of the specification:
\* a name whose sanitized form is not empty, and one answer per question
Acceptable(body) ==
    /\ body.hasName
    /\ sanitizeUserName(body.name) # <<>>
    /\ body.hasAnswers
    /\ Len(body.answers) = Len(quizQuestions)

\* C1: within one submission the stamp call is issued only after that
\* submission's upload call has completed successfully; no stamp is issued
\* while the upload is pending, and none after an upload that failed.
C1_StampOnlyAfterSuccessfulUpload ==
    \A r \in Requests :
        /\ (req[r].stamp # "none" \/ req[r].stamps > 0) => req[r].upload = "ok"
        /\ req[r].upload \in {"none", "pending", "failed"} => req[r].stamps = 0

C1_Witness ==
    \E r \in Requests :
        req[r].stamp = "pending" /\ req[r].stamps = 1 /\ req[r].upload = "ok"

\* C2: once the upload has succeeded, the submission is answered with
\* success:true, perfect:true and the fileHash taken from the upload, whatever
\* the outcome of the stamp call (200, another 2xx, non-2xx, no answer).
C2_StampFailureKeepsSuccess ==
    \A r \in Requests :
        (Answered(r) /\ req[r].upload = "ok") =>
            /\ req[r].stamp \in StampOutcomes
            /\ req[r].response.status = 200
            /\ req[r].response.success = TRUE
            /\ req[r].response.perfect = TRUE
            /\ req[r].response.fileHash = FileHashOf(req[r].uploadData)

C2_Witness ==
    \E r \in Requests :
        /\ Answered(r)
        /\ req[r].upload = "ok"
        /\ req[r].stamp = "rejected"
        /\ req[r].response.success = TRUE

\* C3: whenever a submission has written its certificate file, the file no
\* longer exists once the submission has been answered, on every exit path.
C3_CertificateFileGoneWhenAnswered ==
    \A r \in Requests :
        (Answered(r) /\ req[r].wrote) => disk[req[r].certificateId] = 0

\* C4: a failed upload is answered with HTTP 500 and success:false without a
\* fileHash, exactly once, and nothing follows it: no stamp, no second
\* response.
C4_UploadFailureAnswered500 ==
    \A r \in Requests :
        req[r].upload = "failed" =>
            /\ req[r].uploadError \in UploadFailures
            /\ req[r].stamps = 0
            /\ req[r].pc \in {"unlinkAfterFailure", "done"}
            /\ ~Answered(r) => req[r].sent = 0
            /\ Answered(r) =>
                /\ req[r].sent = 1
                /\ req[r].response.status = 500
                /\ req[r].response.success = FALSE
                /\ "fileHash" \notin DOMAIN req[r].response
                /\ "perfect" \notin DOMAIN req[r].response

C4_Witness ==
    \E r \in Requests :
        /\ Answered(r)
        /\ req[r].upload = "failed"
        /\ req[r].uploadError = "transport"
        /\ req[r].response.status = 500

\* C5: no upload and no stamp call is issued twice within one submission; a
\* stamp follows one successful upload; and an acceptable submission equal
\* to the answer key whose render and upload succeeded has made exactly one
\* upload and one stamp call and reports perfect:true with score = total.
C5_OneUploadThenOneStamp ==
    \A r \in Requests :
        /\ req[r].uploads <= 1
        /\ req[r].stamps <= 1
        /\ req[r].stamps = 1 => (req[r].uploads = 1 /\ req[r].upload = "ok")
        /\ ( /\ Answered(r)
             /\ Acceptable(req[r].body)
             /\ req[r].body.answers = quizQuestions
             /\ req[r].upload = "ok" ) =>
                /\ req[r].uploads = 1
                /\ req[r].stamps = 1
                /\ req[r].response.perfect = TRUE
                /\ req[r].response.score = Len(quizQuestions)
                /\ req[r].response.total = Len(quizQuestions)

C5_Witness ==
    \E r \in Requests :
        /\ Answered(r)
        /\ Len(quizQuestions) = 2
        /\ req[r].body.answers = quizQuestions
        /\ req[r].upload = "ok"
        /\ req[r].uploads = 1
        /\ req[r].stamps = 1

\* C6: an acceptable submission with at least one wrong answer is answered
\* success:true, perfect:false, total = number of questions and score = the
\* number of positions where answer and key agree; no certificate is made,
\* no file is written and no upload or stamp call is issued.
C6_ImperfectSubmissionGraded ==
    \A r \in Requests :
        ( /\ req[r].pc # "idle"
          /\ Acceptable(req[r].body)
          /\ \E i \in 1 .. Len(quizQuestions) :
                req[r].body.answers[i] # quizQuestions[i] ) =>
            /\ Answered(r)
            /\ req[r].response.status = 200
            /\ req[r].response.success = TRUE
            /\ req[r].response.perfect = FALSE
            /\ req[r].response.total = Len(quizQuestions)
            /\ req[r].response.score =
                 Cardinality({i \in 1 .. Len(quizQuestions) :
                                req[r].body.answers[i] = quizQuestions[i]})
            /\ "fileHash" \notin DOMAIN req[r].response
            /\ req[r].certificate = NoCertificate
            /\ ~req[r].wrote
            /\ disk = [id \in CertIds |-> 0]
            /\ req[r].uploads = 0
            /\ req[r].stamps = 0

C6_Witness ==
    \E r \in Requests :
        /\ Answered(r)
        /\ Acceptable(req[r].body)
        /\ req[r].body.answers = <<19, 19>>
        /\ quizQuestions = <<8, 19>>
        /\ req[r].response.score = 1

\* C7: a submission whose sanitized name is empty, whose answers are missing
\* or whose answers length differs from the question count is answered with
\* HTTP 400 and success:false before grading: no certificate, no file, no
\* external call.
C7_InvalidSubmissionRejected ==
    \A r \in Requests :
        (req[r].pc # "idle" /\ ~Acceptable(req[r].body)) =>
            /\ Answered(r)
            /\ req[r].response.status = 400
            /\ req[r].response.success = FALSE
            /\ req[r].certificate = NoCertificate
            /\ ~req[r].wrote
            /\ req[r].uploads = 0
            /\ req[r].stamps = 0

\* C9: the name in a generated certificate is the output of the sanitizer on
\* the submitted name; the raw name never reaches certificate generation.
C9_CertificateNameIsSanitized ==
    \A r \in Requests :
        req[r].certificate # NoCertificate =>
            req[r].certificate.name = sanitizeUserName(req[r].body.name)

\* C10: after a successful upload the success response carries fileHash =
\* "unknown" when the upload's body is absent or has no (non-empty) hash, and
\* fileHash = that hash otherwise; every perfect success response carries a
\* fileHash that is not empty.
C10_FileHashSentinel ==
    \A r \in Requests :
        /\ (Answered(r) /\ req[r].upload = "ok") =>
            LET data == req[r].uploadData
                carriesHash == data.hasData /\ data.hasHash /\ data.hash # ""
            IN  /\ req[r].response.success = TRUE
                /\ req[r].response.perfect = TRUE
                /\ "fileHash" \in DOMAIN req[r].response
                /\ ~carriesHash => req[r].response.fileHash = "unknown"
                /\ carriesHash => req[r].response.fileHash = data.hash
        /\ ( /\ Answered(r)
             /\ "perfect" \in DOMAIN req[r].response
             /\ req[r].response.perfect = TRUE ) =>
                /\ "fileHash" \in DOMAIN req[r].response
                /\ req[r].response.fileHash # ""

C10_Witness ==
    \E r \in Requests :
        /\ Answered(r)
        /\ req[r].upload = "ok"
        /\ ~req[r].uploadData.hasData
        /\ req[r].response.fileHash = "unknown"

(***************************************************************************)
(* Properties of sanitizeUserName (checked under SpecSanitize).            *)
(***************************************************************************)
\* every unit of s is a letter, a digit, a space or one of . , ' - (a
\* surrogate pair is one letter; half a pair is no character at all)
OnlyAllowedCharacters(s) ==
    \A i \in 1 .. Len(s) :
        \/ AllowedUnit(s[i])
        \/ s[i] = HighSurrogate /\ i < Len(s) /\ s[i + 1] = LowSurrogate
        \/ s[i] = LowSurrogate /\ i > 1 /\ s[i - 1] = HighSurrogate

\* C8: for every raw name, sanitizeUserName returns only letters, digits,
\* spaces and . , ' - with no leading space, no trailing space, no run of two
\* or more spaces, and at most 80 characters.
C8_SanitizedNameWellFormed ==
    sanPc = "returned" =>
        /\ OnlyAllowedCharacters(sanOutput)
        /\ (sanOutput # <<>> => sanOutput[1] # " " /\ sanOutput[Len(sanOutput)] # " ")
        /\ \A i \in 1 .. Len(sanOutput) - 1 :
                ~(sanOutput[i] = " " /\ sanOutput[i + 1] = " ")
        /\ Len(sanOutput) <= MaxNameLength

\* C13: a submission whose render never completes is still answered: while it
\* is unanswered the render timer is pending, and once answered the response
\* is HTTP 500 with no certificate file written and no upload or stamp call.
C13_HungRenderAnswered ==
    \A r \in Requests :
        req[r].render = "hung" =>
            IF Answered(r)
            THEN /\ req[r].response.status = 500
                 /\ ~req[r].wrote
                 /\ req[r].uploads = 0
                 /\ req[r].stamps = 0
            ELSE req[r].timer = "armed"

\* the candidates that req[r] read successfully
Loaded(r) == {i \in 1 .. Len(req[r].loads) : req[r].loads[i] # "missing"}

\* C18: while a certificate is generated, its markup comes from the first
\* candidate that loads, in the order preferred name, configured default,
\* 'default.svg'; no candidate after it is read; the inline template is used
\* exactly when no candidate loads.
C18_FirstLoadedTemplateUsed ==
    \A r \in Requests :
        req[r].template # -1 =>
            /\ \A i \in Loaded(r) : i = Len(req[r].loads)
            /\ \A i \in Loaded(r) : req[r].template = i
            /\ req[r].template = 0 <=> Loaded(r) = {}

\* C19: on a quiz with zero questions a submission with a valid name and an
\* empty answers array is not rejected: it grades 0 of 0, goes on to
\* certificate generation, and its success response is the perfect one, after
\* one upload and one stamp call.
C19_EmptyQuizIsPerfect ==
    \A r \in Requests :
        ( /\ req[r].pc # "idle"
          /\ quizQuestions = <<>>
          /\ Acceptable(req[r].body)
          /\ req[r].body.answers = <<>> ) =>
            /\ req[r].correctAnswers = 0
            /\ req[r].certificateId # -1
            /\ req[r].render # "none" \/ req[r].pc = "loadTemplate"
            /\ Answered(r) => req[r].response.status \in {200, 500}
            /\ (Answered(r) /\ req[r].response.status = 200) =>
                    /\ req[r].response.perfect = TRUE
                    /\ req[r].response.score = 0
                    /\ req[r].response.total = 0
                    /\ req[r].uploads = 1
                    /\ req[r].stamps = 1

C19_Witness ==
    \E r \in Requests :
        /\ quizQuestions = <<>>
        /\ req[r].body.hasAnswers
        /\ req[r].body.answers = <<>>
        /\ Answered(r)
        /\ req[r].response.status = 200
        /\ req[r].response.perfect = TRUE
        /\ req[r].response.total = 0
        /\ req[r].certificate # NoCertificate
        /\ req[r].stamps = 1

(***************************************************************************)
(* Properties of concurrent submissions (checked under SpecConcurrent).    *)
(***************************************************************************)
\* req[r] has written its certificate file and has not yet tried to unlink it
HoldsFile(r) ==
    req[r].wrote /\ req[r].pc \in {"upload", "unlink", "unlinkAfterFailure"}

\* the file req[r] wrote is still the one it wrote
FileIntact(r) == disk[req[r].certificateId] = r

\* C14 as stated: for any two concurrent submissions, the transient file a
\* request wrote is neither written over nor deleted by the other request.
C14_FileScopedToRequest ==
    \A r \in Requests : HoldsFile(r) => FileIntact(r)

\* C14 amended: when no other submission drew the same certificate id (the
\* same Date.now() millisecond), the transient file a request wrote is
\* neither written over nor deleted by another request.
C14_FileScopedToCertificateId ==
    \A r \in Requests :
        ( /\ HoldsFile(r)
          /\ \A other \in Requests \ {r} :
                req[other].certificateId # req[r].certificateId ) =>
            FileIntact(r)

C14_Witness ==
    /\ \A r \in Requests : HoldsFile(r) /\ FileIntact(r)
    /\ req[1].certificateId # req[2].certificateId

(***************************************************************************)
(* Properties of applyTemplatePlaceholders (checked under SpecTemplate).   *)
(***************************************************************************)
\* the replacements of the call
Fields == Replacements(tplFields.title, tplFields.name)

\* s contains ## somewhere
HasHashPair(s) == \E i \in 1 .. Len(s) - 1 : s[i] = "#" /\ s[i + 1] = "#"

\* s contains ##KEY## for a key of the field set
HasPlaceholder(s) ==
    \E i \in 1 .. Len(s) : \E k \in 1 .. Len(Keys) : MatchesAt(s, i, Keys[k])

\* s contains a tspan tag
HasTspanTag(s) == \E i \in 1 .. Len(s) : TagEnd(s, i) > 0

\* the call returned its input, and a second call changed nothing
ReturnedUnchanged ==
    /\ tplOutput = tplTemplate
    /\ tplPc = "reapplied" => tplAgain = tplOutput

\* C15 as stated: a template with no ##...## token is returned unchanged, and
\* a second application changes nothing.
C15_NoPlaceholderUnchanged ==
    (tplPc # "ready" /\ ~HasHashPair(tplTemplate)) => ReturnedUnchanged

\* C15 amended: a template with no placeholder of the field set and no tspan
\* tag is returned unchanged, and a second application changes nothing.
C15_PlainTemplateUnchanged ==
    (tplPc # "ready" /\ ~HasPlaceholder(tplTemplate) /\ ~HasTspanTag(tplTemplate))
        => ReturnedUnchanged

C15_Witness ==
    /\ tplPc = "reapplied"
    /\ ~HasPlaceholder(tplTemplate)
    /\ ~HasTspanTag(tplTemplate)
    /\ HasHashPair(tplTemplate)
    /\ "<" \in {tplTemplate[i] : i \in 1 .. Len(tplTemplate)}
    /\ tplAgain = tplTemplate

EntityNames == {"amp;", "lt;", "gt;", "quot;", "apos;"}

\* the literal markup characters of s: < > " ' and every & that does not
\* start an entity
Markup(s) ==
    {i \in 1 .. Len(s) :
        \/ s[i] \in {"<", ">", "dquote", "'"}
        \/ s[i] = "&" /\ (i = Len(s) \/ s[i + 1] \notin EntityNames)}

\* C16: the values add no literal markup character to the output: the output
\* has as many of them as the template (without its tspan tags) has.
C16_ValuesAddNoMarkup ==
    tplPc # "ready" =>
        Cardinality(Markup(tplOutput)) = Cardinality(Markup(RemoveTspan(tplTemplate)))

\* the key whose placeholder is at position i of s, or "" for none
KeyAt(s, i) ==
    LET matching == {k \in 1 .. Len(Keys) : MatchesAt(s, i, Keys[k])}
    IN  IF matching = {} THEN "" ELSE Keys[CHOOSE k \in matching : TRUE]

\* the value of key in replacements
ValueOf(replacements, key) ==
    replacements[CHOOSE k \in 1 .. Len(replacements) : replacements[k].key = key].value

\* s with each placeholder occurrence replaced by the escaped value of its
\* key, the inserted text not looked at again
RECURSIVE SubstituteOnceFrom(_, _, _)
SubstituteOnceFrom(s, i, replacements) ==
    IF i > Len(s) THEN <<>>
    ELSE IF KeyAt(s, i) # ""
    THEN escapeXml(ValueOf(replacements, KeyAt(s, i)))
            \o SubstituteOnceFrom(s, i + PlaceholderLength, replacements)
    ELSE <<s[i]>> \o SubstituteOnceFrom(s, i + 1, replacements)

\* no $ in the title or the name
NoDollar ==
    /\ \A i \in 1 .. Len(tplFields.title) : tplFields.title[i] # "$"
    /\ \A i \in 1 .. Len(tplFields.name) : tplFields.name[i] # "$"

\* C17: values are not templates: the output is the template (without its
\* tspan tags) with only its own placeholder occurrences replaced, a
\* ##KEY## inside a value staying as literal text.  Stated for values without
\* $, so that only the treatment of ##KEY## in values is at stake.
C17_ValuesAreNotTemplates ==
    (tplPc # "ready" /\ NoDollar) =>
        tplOutput = SubstituteOnceFrom(RemoveTspan(tplTemplate), 1, Fields)

(***************************************************************************)
(* Properties of all three handlers (checked under SpecServer).            *)
(***************************************************************************)
\* a handler has sent one response exactly when it has ended, and never two
OneResponse(q) == q.sent <= 1 /\ (q.pc = "done" <=> q.sent = 1)

\* C20: every request to the submit, file-info and file-status handlers ends
\* with exactly one response: no path sends two, and no path that ends sends
\* none.
C20_ExactlyOneResponse ==
    /\ \A r \in Requests : OneResponse(req[r])
    /\ \A c \in QueryClients : OneResponse(fileInfo[c]) /\ OneResponse(fileStatus[c])

C20_Witness ==
    \E r \in Requests :
        /\ Answered(r)
        /\ req[r].upload = "failed"
        /\ req[r].response.status = 500
        /\ req[r].sent = 1

(***************************************************************************)
(* Idempotence of sanitizeUserName (checked under SpecSanitize).           *)
(***************************************************************************)
\* C21: sanitizeUserName is idempotent: sanitizing a name that came out of the
\* sanitizer (sanInput of the second call) returns it unchanged.
C21_SanitizeIdempotent ==
    sanPc = "resanitized" => sanOutput = sanInput

====
